---- MODULE Spec2Model ----
(***************************************************************************)
(* Hybrid log-block flash translation layer (src/src/myFTL.cpp) driven     *)
(* through the flash simulator's Controller (src/src/746FlashSim.h), in    *)
(* the single-process build (CONFIG_TWOPROC == 0).                         *)
(*                                                                         *)
(* One action per host entry point of FlashSimTest (Write, Read, Trim).    *)
(* A host operation runs to completion: the FTL translate call, every      *)
(* controller command it issues through the callback, and the final        *)
(* READ/WRITE of the Controller are one step.  A FlashSimException is      *)
(* modelled by the field exc of the threaded state: once it is set every   *)
(* later statement of the operation is skipped (stack unwinding) and the   *)
(* state reached so far persists.                                          *)
(***************************************************************************)
EXTENDS Integers, Sequences, FiniteSets, TLC

VARIABLES conf, ftl, ctrl, last, data, hist, ages, erased

vars == <<conf, ftl, ctrl, last, data, hist, ages, erased>>

(***************************************************************************)
(* Bounds of the model.                                                    *)
(***************************************************************************)
\* the largest BLOCK_ERASES among the configurations (family Wear)
MaxErases == 4
\* length up to which the run of writes that opened the history is counted
MaxHist == 4
\* the pages an FTL leaves in the page buffer at most (family Raw)
MaxBuf == 2
\* the largest size of one level of the geometry (family Shapes)
MaxDim == 3

(***************************************************************************)
(* Generic helpers for std::map / std::unordered_map / std::vector.        *)
(***************************************************************************)
HasKey(m, k) == k \in DOMAIN m

MapPut(m, k, v) == [x \in (DOMAIN m) \cup {k} |-> IF x = k THEN v ELSE m[x]]

MapErase(m, k) == [x \in (DOMAIN m) \ {k} |-> m[x]]

EmptyMap == [x \in {} |-> 0]

\* the largest size_t; used by the policies as "no block" sentinel.
\* (2^64 - 1 in the build; any value above every block index behaves alike)
SizeMax == 2147483647

(***************************************************************************)
(* Configurations (FlashSimConf getters) and the workload of the harness:  *)
(* the LBAs it writes, reads and trims.                                    *)
(***************************************************************************)
Geometry(ss, ps, ds, pls, bs, be, ovp, pol) ==
  [ssd_size |-> ss, package_size |-> ps, die_size |-> ds, plane_size |-> pls,
   block_size |-> bs, block_erase_count |-> be, overprovisioning |-> ovp,
   gc_policy |-> pol]

Workload(g, w, r, t) ==
  [ssd_size |-> g.ssd_size, package_size |-> g.package_size, die_size |-> g.die_size,
   plane_size |-> g.plane_size, block_size |-> g.block_size,
   block_erase_count |-> g.block_erase_count, overprovisioning |-> g.overprovisioning,
   gc_policy |-> g.gc_policy, writes |-> w, reads |-> r, trims |-> t]

\* Every configuration is 1 package x 2 dies x 2 planes of one block each,
\* blocks of 2 pages: 4 blocks, 8 pages.  38% over-provisioning rounds to 2
\* blocks (cleaning block 2, log block 3), which leaves data blocks 0 and 1
\* with LBAs 0..3; LBA 4 is the first one beyond largest_lba.
Device(be, pol) == Geometry(1, 1, 2, 2, 2, be, 38, pol)

\* every policy, blocks that wear out after one or two erases; two data
\* blocks compete for the log block, LBAs 0 and 2 are read before and after
\* they are written, LBA 4 lies beyond largest_lba
General ==
  { Workload(Device(e, p), {0, 2, 3, 4}, {0, 2, 4}, {2}) : e \in 1..2, p \in 0..3 }

\* round robin, blocks that last MaxErases - 1 or MaxErases erases
Wear ==
  { Workload(Device(e, 0), {0, 2}, {0}, {0}) : e \in {MaxErases - 1, MaxErases} }

\* every policy, the whole workload on data block 0 (test_1_3, test_1_6)
Hot ==
  { Workload(Device(2, p), {0, 1}, {0, 1}, {1}) : p \in 0..3 }

\* round robin, every LBA of data block 0 and one of data block 1, blocks
\* that last long enough for a data block to be cleaned three times
Stale ==
  { Workload(Device(MaxErases - 1, 0), {0, 1, 2}, {1}, {1}) }

\* the same four blocks with no over-provisioned block (0%) or with a single
\* one (13% rounds to 1: log block 3, no cleaning block); every policy
Bare ==
  { Workload(Geometry(1, 1, 2, 2, 2, 1, ovp, p), {0, 1, 2, 5}, {0}, {0}) :
      ovp \in {0, 13}, p \in 0..3 }

\* six blocks (1 package x 2 dies x 3 planes), 50% over-provisioning: data
\* blocks 0..2 with LBAs 0..5, cleaning block 3, log blocks 4 and 5; round
\* robin and LRU, three data blocks compete for two log blocks
Pair ==
  { Workload(Geometry(1, 1, 2, 3, 2, 2, 50, p), {0, 2, 4}, {0}, {0}) : p \in 0..1 }

\* the six-block device with the greedy and the cost-benefit policy
Tie ==
  { Workload(Geometry(1, 1, 2, 3, 2, 1, 50, p), {0, 2, 4}, {0}, {0}) : p \in 2..3 }

\* round robin, every LBA of both data blocks written, LBA 0 read back
Lost ==
  { Workload(Device(MaxErases - 1, 0), {0, 1, 2, 3}, {0}, {0}) }

\* two blocks of two pages that last one or two erases, for the Controller
\* driven command by command
Raw ==
  { Workload(Geometry(1, 1, 1, 2, 2, e, 50, 0), {}, {}, {}) : e \in 1..2 }

\* every geometry with 1..MaxDim packages, dies per package, planes per die,
\* blocks per plane and pages per block
Shapes ==
  { Workload(Geometry(ss, ps, ds, pls, bs, 1, 50, 0), {}, {}, {}) :
      ss \in 1..MaxDim, ps \in 1..MaxDim, ds \in 1..MaxDim,
      pls \in 1..MaxDim, bs \in 1..MaxDim }

\* the four-block device for the page-mapped FTL: with 38% or 13% of the
\* blocks over-provisioned LBAs 0..3 or 0..5 are valid; LBA 6 is beyond both
PageMapped ==
  { Workload(Geometry(1, 1, 2, 2, 2, 1, ovp, 0), {0, 1, 5, 6}, {0, 5, 6}, {0, 6}) :
      ovp \in {13, 38} }

Configs == General \cup Wear \cup Hot \cup Stale

num_blocks == conf.ssd_size * conf.package_size * conf.die_size * conf.plane_size

num_op_blocks == (num_blocks * conf.overprovisioning + 100 \div 2) \div 100

num_pages == num_blocks * conf.block_size

block_size == conf.block_size

block_erase_count == conf.block_erase_count

(***************************************************************************)
(* Address codec of the FTL and of the Controller.                         *)
(***************************************************************************)
Address(pk, d, pl, b, pg) ==
  [package |-> pk, die |-> d, plane |-> pl, block |-> b, page |-> pg]

\* the codec with the moduli of die and plane exchanged
CalcPhyAddrSwapped(lba) ==
  Address(lba \div (conf.package_size * conf.die_size * conf.plane_size * block_size),
          (lba \div (conf.die_size * conf.plane_size * block_size)) % conf.die_size,
          (lba \div (conf.plane_size * block_size)) % conf.package_size,
          (lba \div block_size) % conf.plane_size,
          lba % block_size)

CalcPhyAddr(lba) ==
  Address(lba \div (conf.package_size * conf.die_size * conf.plane_size * block_size),
          (lba \div (conf.die_size * conf.plane_size * block_size)) % conf.package_size,
          (lba \div (conf.plane_size * block_size)) % conf.die_size,
          (lba \div block_size) % conf.plane_size,
          lba % block_size)

GetBlockIdx(a) ==
  a.package * conf.package_size * conf.die_size * conf.plane_size
  + a.die * conf.die_size * conf.plane_size
  + a.plane * conf.plane_size + a.block

GetAddrFromBlockIdx(b) ==
  Address(b \div (conf.package_size * conf.die_size * conf.plane_size),
          (b \div (conf.die_size * conf.plane_size)) % conf.package_size,
          (b \div conf.plane_size) % conf.die_size,
          b % conf.plane_size,
          0)

\* the page index dropped: every address is page 0 of its block
GetAddrFromBlockPageIdxNoPage(b, p) == GetAddrFromBlockIdx(b)

GetAddrFromBlockPageIdx(b, p) == [GetAddrFromBlockIdx(b) EXCEPT !.page = p]

\* the page offset dropped: one validity bit per block
GetPageIdxOfBlock(a) ==
  a.package * conf.package_size * conf.die_size * conf.plane_size * block_size
  + a.die * conf.die_size * conf.plane_size * block_size
  + a.plane * conf.plane_size * block_size
  + a.block * block_size

GetPageIdx(a) ==
  a.package * conf.package_size * conf.die_size * conf.plane_size * block_size
  + a.die * conf.die_size * conf.plane_size * block_size
  + a.plane * conf.plane_size * block_size
  + a.block * block_size + a.page

\* Controller: page_per_block = block_size, page_per_plane = ... (constructor)
AddressToLBA(a) ==
  a.page + a.block * block_size
  + a.plane * (block_size * conf.plane_size)
  + a.die * (block_size * conf.plane_size * conf.die_size)
  + a.package * (block_size * conf.plane_size * conf.die_size * conf.package_size)

(***************************************************************************)
(* Controller::ExecuteCommand.  s is the state threaded through one host   *)
(* operation (see Enter).  Every command appends to s.trace what it was,   *)
(* where it went, the buffer length it found and whether the target page   *)
(* was bound, so that the commands of the last host operation can be       *)
(* inspected in the state that follows it.                                 *)
(***************************************************************************)
Throw(s, what) == [s EXCEPT !.exc = what]

Traced(s, op, a) ==
  LET p == AddressToLBA(a) IN
  [s EXCEPT !.trace = Append(@, [op |-> op, phys |-> p,
                                 buf |-> Len(s.ctrl.page_buffer),
                                 bound |-> HasKey(s.ctrl.physical_logical_map, p)])]

\* DataStore::ReadSlot: an inactive slot leaves the zero-initialised page as is
ReadSlot(c, slot) == IF HasKey(c.slots, slot) THEN c.slots[slot] ELSE 0

ExecRead(s, a) ==
  LET p == AddressToLBA(a) IN
  IF ~HasKey(s.ctrl.physical_logical_map, p)
  THEN Throw(s, "invalid_read")
  ELSE [s EXCEPT !.ctrl.page_buffer =
                   Append(@, [page |-> ReadSlot(s.ctrl, p),
                              lba |-> s.ctrl.physical_logical_map[p]])]

\* the WRITE that takes the youngest pair of the buffer
ExecWriteLast(s, a) ==
  LET p == AddressToLBA(a) IN
  IF s.ctrl.page_buffer = <<>>
  THEN Throw(s, "ub_front_of_empty_buffer")
  ELSE IF HasKey(s.ctrl.physical_logical_map, p)
  THEN Throw(s, "dirty_write")
  ELSE [s EXCEPT !.ctrl.physical_logical_map =
                   MapPut(@, p, s.ctrl.page_buffer[Len(s.ctrl.page_buffer)].lba),
                 !.ctrl.slots =
                   MapPut(@, p, s.ctrl.page_buffer[Len(s.ctrl.page_buffer)].page),
                 !.ctrl.page_buffer = SubSeq(@, 1, Len(@) - 1)]

ExecWrite(s, a) ==
  LET p == AddressToLBA(a) IN
  IF s.ctrl.page_buffer = <<>>
  THEN Throw(s, "ub_front_of_empty_buffer")
  ELSE IF HasKey(s.ctrl.physical_logical_map, p)
  THEN Throw(s, "dirty_write")
  ELSE IF HasKey(s.ctrl.slots, p)
  THEN Throw([s EXCEPT !.ctrl.physical_logical_map =
                         MapPut(@, p, Head(s.ctrl.page_buffer).lba)],
             "overwrite_slot")
  ELSE [s EXCEPT !.ctrl.physical_logical_map =
                   MapPut(@, p, Head(s.ctrl.page_buffer).lba),
                 !.ctrl.slots = MapPut(@, p, Head(s.ctrl.page_buffer).page),
                 !.ctrl.page_buffer = Tail(@)]

\* the ledger that refuses the last erase of a block
UpdateBlockErasureEarly(s, block_lba) ==
  LET m == IF HasKey(s.ctrl.block_erasure_map, block_lba)
           THEN s.ctrl.block_erasure_map
           ELSE MapPut(s.ctrl.block_erasure_map, block_lba, block_erase_count)
  IN IF m[block_lba] <= 1
     THEN Throw([s EXCEPT !.ctrl.block_erasure_map = m], "block_dead")
     ELSE [s EXCEPT !.ctrl.block_erasure_map = [m EXCEPT ![block_lba] = @ - 1]]

\* Controller::UpdateBlockErasure on the controller record c
UpdateBlockErasure(s, block_lba) ==
  LET m == IF HasKey(s.ctrl.block_erasure_map, block_lba)
           THEN s.ctrl.block_erasure_map
           ELSE MapPut(s.ctrl.block_erasure_map, block_lba, block_erase_count)
  IN IF m[block_lba] = 0
     THEN Throw([s EXCEPT !.ctrl.block_erasure_map = m], "block_dead")
     ELSE [s EXCEPT !.ctrl.block_erasure_map = [m EXCEPT ![block_lba] = @ - 1]]

ExecErase(s, a) ==
  IF Len(s.ctrl.page_buffer) # 0
  THEN Throw(s, "state_not_clean")
  ELSE LET start_lba == AddressToLBA([a EXCEPT !.page = 0])
           end_lba == start_lba + block_size - 1
           range == start_lba..end_lba
           s1 == [s EXCEPT
                    !.ctrl.slots = [x \in (DOMAIN @) \ range |-> @[x]],
                    !.ctrl.physical_logical_map = [x \in (DOMAIN @) \ range |-> @[x]],
                    !.ctrl.num_erases = @ + 1]
       IN UpdateBlockErasure(s1, start_lba)

ExecuteCommand(s, op, a) ==
  IF s.exc # "none" THEN s
  ELSE CASE op = "READ" -> ExecRead(Traced(s, op, a), a)
         [] op = "WRITE" -> ExecWrite(Traced(s, op, a), a)
         [] op = "ERASE" -> ExecErase(Traced(s, op, a), a)

AtLeastOneBlockWornOut(c) ==
  \E k \in DOMAIN c.block_erasure_map : c.block_erasure_map[k] = 0

(***************************************************************************)
(* Garbage-collection policies.  The threaded state carries two inputs of  *)
(* the host operation that the source leaves open:                         *)
(*   s.order  the iteration order of std::unordered_map over the data      *)
(*            blocks (unspecified by the standard);                        *)
(*   s.ub     what an undefined read produces in this build: -1 when the   *)
(*            process dies, else the value read, and the run goes on.      *)
(* Select... return [s |-> state, idx |-> data block to clean].            *)
(***************************************************************************)
Crash(s) == Throw(s, "crash")

\* the undefined read of this operation ends the process
Crashes(ub) == ub < 0

SetGC(s, g) == [s EXCEPT !.ftl.gc = g]

\* keys of map m in the iteration order of this operation
RECURSIVE IterKeys(_, _)
IterKeys(order, m) ==
  IF order = <<>> THEN <<>>
  ELSE IF HasKey(m, Head(order)) THEN <<Head(order)>> \o IterKeys(Tail(order), m)
  ELSE IterKeys(Tail(order), m)

\* front() and pop_front() of an empty std::list are undefined
FrontOfEmptyList(s) ==
  IF Crashes(s.ub) THEN [s |-> Crash(s), idx |-> SizeMax]
  ELSE [s |-> s, idx |-> s.ub]

RoundRobinSelectBlockToClean(s) ==
  LET q == s.ftl.gc.blocks_queue IN
  IF q = <<>> THEN FrontOfEmptyList(s)
  ELSE [s |-> SetGC(s, [s.ftl.gc EXCEPT !.blocks_queue = Tail(q)]), idx |-> Head(q)]

RoundRobinLogBlockAllocatedHandler(g, datablock_idx, livepages) ==
  [g EXCEPT !.blocks_queue = Append(@, datablock_idx)]

\* a fresh list node: the least identity no node of the list carries
NewNode(lru) == CHOOSE n \in 0..Len(lru) : \A i \in 1..Len(lru) : lru[i].id # n

ListErase(lru, id) == SelectSeq(lru, LAMBDA nd : nd.id # id)

LRUSelectBlockToClean(s) ==
  LET l == s.ftl.gc.blocks_lru IN
  IF l = <<>> THEN FrontOfEmptyList(s)
  ELSE [s |-> SetGC(s, [s.ftl.gc EXCEPT
                          !.block_node_map = MapErase(@, Head(l).blk),
                          !.blocks_lru = Tail(l)]),
        idx |-> Head(l).blk]

LRULogBlockAllocatedHandler(g, datablock_idx, livepages) ==
  LET n == NewNode(g.blocks_lru) IN
  [g EXCEPT !.blocks_lru = Append(@, [id |-> n, blk |-> datablock_idx]),
            !.block_node_map = IF HasKey(@, datablock_idx) THEN @
                               ELSE MapPut(@, datablock_idx, n)]

LRUDataBlockWrittenHandler(g, datablock_idx, is_newly_live) ==
  IF ~HasKey(g.block_node_map, datablock_idx) THEN g
  ELSE LET l1 == ListErase(g.blocks_lru, g.block_node_map[datablock_idx])
           n == NewNode(l1)
       IN [g EXCEPT !.blocks_lru = Append(l1, [id |-> n, blk |-> datablock_idx]),
                    !.block_node_map = MapPut(@, datablock_idx, n)]

\* the loop of GreedyPolicy::SelectBlockToClean over keys ks
RECURSIVE GreedyScan(_, _, _, _)
GreedyScan(ks, m, best, min_livepages) ==
  IF ks = <<>> THEN best
  ELSE IF m[Head(ks)] < min_livepages
       THEN GreedyScan(Tail(ks), m, Head(ks), m[Head(ks)])
       ELSE GreedyScan(Tail(ks), m, best, min_livepages)

GreedySelectBlockToClean(s) ==
  LET m == s.ftl.gc.block_livepages_map
      b == GreedyScan(IterKeys(s.order, m), m, SizeMax, SizeMax)
  IN [s |-> SetGC(s, [s.ftl.gc EXCEPT !.block_livepages_map =
                        IF HasKey(m, b) THEN MapErase(m, b) ELSE m]),
      idx |-> b]

GreedyLogBlockAllocatedHandler(g, datablock_idx, livepages) ==
  [g EXCEPT !.block_livepages_map = MapPut(@, datablock_idx, livepages)]

\* the handler without the count of newly live pages
GreedyDataBlockWrittenHandlerNoCount(g, datablock_idx, is_newly_live) == g

GreedyDataBlockWrittenHandler(g, datablock_idx, is_newly_live) ==
  IF ~HasKey(g.block_livepages_map, datablock_idx) THEN g
  ELSE IF is_newly_live
  THEN [g EXCEPT !.block_livepages_map[datablock_idx] = @ + 1]
  ELSE g

\* CostBenefitPolicy::CalcRatio as the exact fraction num/den:
\* (1 - u) / (1 + u) * age with u = livepages / (2 * block_size)
CalcRatio(g, b) ==
  LET age == g.curr_ts - g.block_ts_map[b]
      livepages == g.block_livepages_map[b]
  IN [num |-> (2 * block_size - livepages) * age, den |-> 2 * block_size + livepages]

\* numeric_limits<double>::min(), the least positive normal double, the start
\* value of maxratio: the ratios are multiples of 1 / (3 * block_size), so a
\* ratio exceeds it exactly when it exceeds 0
DblMin == [num |-> 0, den |-> 1]

\* ratio > maxratio
RatioGreater(r, best) == r.num * best.den > best.num * r.den

RECURSIVE CostBenefitScan(_, _, _, _)
CostBenefitScan(ks, g, block_maxratio, maxratio) ==
  IF ks = <<>> THEN block_maxratio
  ELSE IF RatioGreater(CalcRatio(g, Head(ks)), maxratio)
       THEN CostBenefitScan(Tail(ks), g, Head(ks), CalcRatio(g, Head(ks)))
       ELSE CostBenefitScan(Tail(ks), g, block_maxratio, maxratio)

CostBenefitSelectBlockToClean(s) ==
  LET g == s.ftl.gc
      b == CostBenefitScan(IterKeys(s.order, g.block_livepages_map), g,
                           SizeMax, DblMin)
  IN [s |-> SetGC(s, [g EXCEPT
                        !.block_ts_map = IF HasKey(@, b) THEN MapErase(@, b) ELSE @,
                        !.block_livepages_map =
                           IF HasKey(@, b) THEN MapErase(@, b) ELSE @]),
      idx |-> b]

CostBenefitLogBlockAllocatedHandler(g, datablock_idx, livepages) ==
  [g EXCEPT !.block_ts_map = MapPut(@, datablock_idx, 0),
            !.block_livepages_map = MapPut(@, datablock_idx, livepages)]

CostBenefitDataBlockWrittenHandler(g, datablock_idx, is_newly_live) ==
  LET g1 == [g EXCEPT !.curr_ts = @ + 1] IN
  IF ~HasKey(g1.block_livepages_map, datablock_idx) THEN g1
  ELSE [g1 EXCEPT !.block_ts_map = MapPut(@, datablock_idx, g1.curr_ts),
                  !.block_livepages_map[datablock_idx] =
                     IF is_newly_live THEN @ + 1 ELSE @]

\* virtual dispatch on the policy chosen by SelectGCPolicy
SelectBlockToClean(s) ==
  CASE conf.gc_policy = 0 -> RoundRobinSelectBlockToClean(s)
    [] conf.gc_policy = 1 -> LRUSelectBlockToClean(s)
    [] conf.gc_policy = 2 -> GreedySelectBlockToClean(s)
    [] conf.gc_policy = 3 -> CostBenefitSelectBlockToClean(s)

LogBlockAllocatedHandler(g, datablock_idx, livepages) ==
  CASE conf.gc_policy = 0 -> RoundRobinLogBlockAllocatedHandler(g, datablock_idx, livepages)
    [] conf.gc_policy = 1 -> LRULogBlockAllocatedHandler(g, datablock_idx, livepages)
    [] conf.gc_policy = 2 -> GreedyLogBlockAllocatedHandler(g, datablock_idx, livepages)
    [] conf.gc_policy = 3 -> CostBenefitLogBlockAllocatedHandler(g, datablock_idx, livepages)

DataBlockWrittenHandler(g, datablock_idx, is_newly_live) ==
  CASE conf.gc_policy = 0 -> g
    [] conf.gc_policy = 1 -> LRUDataBlockWrittenHandler(g, datablock_idx, is_newly_live)
    [] conf.gc_policy = 2 -> GreedyDataBlockWrittenHandler(g, datablock_idx, is_newly_live)
    [] conf.gc_policy = 3 -> CostBenefitDataBlockWrittenHandler(g, datablock_idx, is_newly_live)

GCInit ==
  [blocks_queue |-> <<>>, blocks_lru |-> <<>>, block_node_map |-> EmptyMap,
   block_livepages_map |-> EmptyMap, curr_ts |-> 0, block_ts_map |-> EmptyMap]

(***************************************************************************)
(* MyFTL.                                                                  *)
(***************************************************************************)
\* the range check against the raw device instead of the data region
IsValidLbaRaw(f, lba) == lba < num_pages

IsValidLba(f, lba) == lba <= f.largest_lba

\* std::unordered_map::operator[] inserts a value-initialised entry
IndexOrInsert(m, k, dflt) == IF HasKey(m, k) THEN m ELSE MapPut(m, k, dflt)

ComputeLivePages(f, datablock_idx) ==
  Cardinality({i \in 0..(block_size - 1) :
     f.pages_valid[GetPageIdx([GetAddrFromBlockIdx(datablock_idx) EXCEPT !.page = i])]})

\* ++erase_counts[block_idx], reached only when the ERASE did not throw
CountErase(s, block_idx) ==
  IF s.exc # "none" THEN s
  ELSE [s EXCEPT !.ftl.erase_counts[block_idx] = @ + 1]

\* the ERASE without the count
EraseUncounted(s, block_idx) ==
  ExecuteCommand(s, "ERASE", GetAddrFromBlockIdx(block_idx))

\* MyFTL::Erase
Erase(s, block_idx) ==
  CountErase(ExecuteCommand(s, "ERASE", GetAddrFromBlockIdx(block_idx)), block_idx)

\* one READ followed by one WRITE through the callback
Copy(s, from, to) == ExecuteCommand(ExecuteCommand(s, "READ", from), "WRITE", to)

\* first loop of Clean: i runs from the last log entry down to 0;
\* returns [s |-> state, live_copied |-> the page offsets copied]
RECURSIVE CopyFromLog(_, _, _, _, _)
CopyFromLog(s, logblock_idx, cleanblock_idx, i, live_copied) ==
  IF i < 0 \/ s.exc # "none" THEN [s |-> s, live_copied |-> live_copied]
  ELSE LET page == CalcPhyAddr(s.ftl.logblock_lbas_map[logblock_idx][i + 1]).page
       IN IF page \in live_copied
          THEN CopyFromLog(s, logblock_idx, cleanblock_idx, i - 1, live_copied)
          ELSE CopyFromLog(Copy(s, GetAddrFromBlockPageIdx(logblock_idx, i),
                                   GetAddrFromBlockPageIdx(cleanblock_idx, page)),
                           logblock_idx, cleanblock_idx, i - 1,
                           live_copied \cup {page})

\* the validity bit the second loop of Clean consults for page offset i
CleanPageValid(f, datablock_idx, i) == f.pages_valid[i]

\* second loop of Clean: remaining live pages of the data block
RECURSIVE CopyFromData(_, _, _, _, _)
CopyFromData(s, datablock_idx, cleanblock_idx, i, live_copied) ==
  IF i >= block_size \/ s.exc # "none" THEN [s |-> s, live_copied |-> live_copied]
  ELSE IF i \in live_copied \/ ~CleanPageValid(s.ftl, datablock_idx, i)
       THEN CopyFromData(s, datablock_idx, cleanblock_idx, i + 1, live_copied)
       ELSE CopyFromData(Copy(s, GetAddrFromBlockPageIdx(datablock_idx, i),
                                 GetAddrFromBlockPageIdx(cleanblock_idx, i)),
                         datablock_idx, cleanblock_idx, i + 1,
                         live_copied \cup {i})

\* third loop of Clean: from the cleaning block back to the data block
RECURSIVE CopyBack(_, _, _, _, _)
CopyBack(s, datablock_idx, cleanblock_idx, i, live_copied) ==
  IF i >= block_size \/ s.exc # "none" THEN s
  ELSE IF i \notin live_copied
       THEN CopyBack(s, datablock_idx, cleanblock_idx, i + 1, live_copied)
       ELSE CopyBack(Copy(s, GetAddrFromBlockPageIdx(cleanblock_idx, i),
                             GetAddrFromBlockPageIdx(datablock_idx, i)),
                     datablock_idx, cleanblock_idx, i + 1, live_copied)

\* the wear check on the victim alone
WornOutVictim(f, datablock_idx, logblock_idx, cleanblock_idx) ==
  f.erase_counts[datablock_idx] >= block_erase_count

\* the wear check off by one: a block with no erase left passes
WornOutLate(f, datablock_idx, logblock_idx, cleanblock_idx) ==
  \/ f.erase_counts[datablock_idx] > block_erase_count
  \/ f.erase_counts[logblock_idx] > block_erase_count
  \/ f.erase_counts[cleanblock_idx] > block_erase_count

\* the wear check at the head of Clean
WornOut(f, datablock_idx, logblock_idx, cleanblock_idx) ==
  \/ f.erase_counts[datablock_idx] >= block_erase_count
  \/ f.erase_counts[logblock_idx] >= block_erase_count
  \/ f.erase_counts[cleanblock_idx] >= block_erase_count

\* the bookkeeping without logblock_lbas.clear()
ReleaseLogBlockNoClear(f, datablock_idx, logblock_idx) ==
  [f EXCEPT !.free_log_blocks = Append(@, logblock_idx),
            !.data_logblock_map = MapErase(@, datablock_idx)]

\* the bookkeeping between the two erases and the copy back
ReleaseLogBlock(f, datablock_idx, logblock_idx) ==
  [f EXCEPT !.free_log_blocks = Append(@, logblock_idx),
            !.data_logblock_map = MapErase(@, datablock_idx),
            !.logblock_lbas_map = MapPut(@, logblock_idx, <<>>)]

\* Clean from the first loop on; m is [s, live_copied] throughout.
\* auto &logblock_lbas = logblock_lbas_map[logblock_idx], then the first loop
MigrateLog(s, logblock_idx, cleanblock_idx) ==
  CopyFromLog([s EXCEPT !.ftl.logblock_lbas_map = IndexOrInsert(@, logblock_idx, <<>>)],
              logblock_idx, cleanblock_idx,
              (IF HasKey(s.ftl.logblock_lbas_map, logblock_idx)
               THEN Len(s.ftl.logblock_lbas_map[logblock_idx]) ELSE 0) - 1,
              {})

MigrateData(m, datablock_idx, cleanblock_idx) ==
  CopyFromData(m.s, datablock_idx, cleanblock_idx, 0, m.live_copied)

\* the bookkeeping is reached only when neither ERASE threw
Released(s, datablock_idx, logblock_idx) ==
  IF s.exc # "none" THEN s
  ELSE [s EXCEPT !.ftl = ReleaseLogBlock(@, datablock_idx, logblock_idx)]

EraseDataAndLog(m, datablock_idx, logblock_idx) ==
  [s |-> Released(Erase(Erase(m.s, datablock_idx), logblock_idx),
                  datablock_idx, logblock_idx),
   live_copied |-> m.live_copied]

Restore(m, datablock_idx, cleanblock_idx) ==
  Erase(CopyBack(m.s, datablock_idx, cleanblock_idx, 0, m.live_copied), cleanblock_idx)

\* return true, unless an exception left Clean on the way
Cleaned(s) == [s |-> s, ok |-> (s.exc = "none")]

\* the first three statements of Clean: both operator[] lookups and the
\* advance of the cleaning-block cursor
CleanEnter(s, datablock_idx) ==
  [s EXCEPT !.ftl.data_logblock_map = IndexOrInsert(@, datablock_idx, 0),
            !.ftl.curr_cleanblock_idx = (@ + 1) % Len(s.ftl.cleanblock_idxs),
            !.cleans = Append(@, [blk |-> datablock_idx,
                                  assigned |-> HasKey(s.ftl.data_logblock_map,
                                                      datablock_idx),
                                  at |-> Len(s.trace)])]

\* Clean from the wear check on, with the blocks chosen by its first statements
CleanBlocks(s, datablock_idx, logblock_idx, cleanblock_idx) ==
  IF datablock_idx \notin DOMAIN s.ftl.erase_counts
  THEN \* erase_counts[datablock_idx] reads outside the vector
       IF Crashes(s.ub) \/ s.ub < block_erase_count
       THEN [s |-> Crash(s), ok |-> FALSE]
       ELSE [s |-> s, ok |-> FALSE]
  ELSE IF WornOut(s.ftl, datablock_idx, logblock_idx, cleanblock_idx)
  THEN [s |-> s, ok |-> FALSE]
  ELSE Cleaned(
         Restore(
           EraseDataAndLog(
             MigrateData(MigrateLog(s, logblock_idx, cleanblock_idx),
                         datablock_idx, cleanblock_idx),
             datablock_idx, logblock_idx),
           datablock_idx, cleanblock_idx))

\* MyFTL::Clean; returns [s |-> state, ok |-> the bool returned]
Clean(s, datablock_idx) ==
  IF s.exc # "none" THEN [s |-> s, ok |-> FALSE]
  ELSE IF s.ftl.cleanblock_idxs = <<>>
  THEN \* index into an empty vector, then a remainder by zero
       [s |-> Crash([s EXCEPT !.ftl.data_logblock_map =
                                 IndexOrInsert(@, datablock_idx, 0)]),
        ok |-> FALSE]
  ELSE CleanBlocks(CleanEnter(s, datablock_idx), datablock_idx,
                   IndexOrInsert(s.ftl.data_logblock_map, datablock_idx, 0)[datablock_idx],
                   s.ftl.cleanblock_idxs[s.ftl.curr_cleanblock_idx + 1])

Failure(s) == [s |-> s, state |-> "FAILURE", addr |-> Address(0, 0, 0, 0, 0)]

Success(s, a) == [s |-> s, state |-> "SUCCESS", addr |-> a]

\* the backward search of ReadTranslate through the log of logblock_idx
\* (operator[] of logblock_lbas_map inserts an empty vector)
ReadFromLog(s, lba, logblock_idx, hits) ==
  IF hits # {}
  THEN Success(s, GetAddrFromBlockPageIdx(logblock_idx,
                     CHOOSE i \in hits : \A j \in hits : j <= i))
  ELSE Success(s, CalcPhyAddr(lba))

LogHits(f, lba, logblock_idx) ==
  IF HasKey(f.logblock_lbas_map, logblock_idx)
  THEN {i \in 0..(Len(f.logblock_lbas_map[logblock_idx]) - 1) :
          f.logblock_lbas_map[logblock_idx][i + 1] = lba}
  ELSE {}

\* MyFTL::ReadTranslate; returns [s, state, addr]
ReadTranslate(s, lba) ==
  IF ~IsValidLba(s.ftl, lba) THEN Failure(s)
  ELSE IF ~s.ftl.pages_valid[GetPageIdx(CalcPhyAddr(lba))] THEN Failure(s)
  ELSE IF ~HasKey(s.ftl.data_logblock_map, GetBlockIdx(CalcPhyAddr(lba)))
  THEN Success(s, CalcPhyAddr(lba))
  ELSE ReadFromLog(
         [s EXCEPT !.ftl.logblock_lbas_map =
            IndexOrInsert(@, s.ftl.data_logblock_map[GetBlockIdx(CalcPhyAddr(lba))], <<>>)],
         lba,
         s.ftl.data_logblock_map[GetBlockIdx(CalcPhyAddr(lba))],
         LogHits(s.ftl, lba, s.ftl.data_logblock_map[GetBlockIdx(CalcPhyAddr(lba))]))

\* the log-block allocation of WriteTranslate
AllocateLogBlock(f, datablock_idx) ==
  [f EXCEPT !.data_logblock_map = MapPut(@, datablock_idx, Head(f.free_log_blocks)),
            !.free_log_blocks = Tail(@),
            !.gc = LogBlockAllocatedHandler(@, datablock_idx,
                                            ComputeLivePages(f, datablock_idx))]

\* WriteTranslate up to "size_t logblock_idx = data_logblock_map[datablock_idx]"
\* and the operator[] of logblock_lbas_map that follows
WithLogBlock(s, datablock_idx) ==
  IF HasKey(s.ftl.data_logblock_map, datablock_idx)
  THEN [s EXCEPT !.ftl.logblock_lbas_map =
          IndexOrInsert(@, s.ftl.data_logblock_map[datablock_idx], <<>>)]
  ELSE [s EXCEPT !.ftl = AllocateLogBlock(@, datablock_idx),
                 !.ftl.logblock_lbas_map =
                    IndexOrInsert(@, Head(s.ftl.free_log_blocks), <<>>)]

RECURSIVE WriteTranslate(_, _)

\* if (Clean(...)) return WriteTranslate(lba, func); else return FAILURE
RetryAfterClean(c, lba) ==
  IF c.ok THEN WriteTranslate(c.s, lba) ELSE Failure(c.s)

\* Clean(gc_policy->SelectBlockToClean(), func)
CleanSelected(sel) == Clean(sel.s, sel.idx)

\* the full-log test off by one: the log block is cleaned one write too late
WriteToLogLate(s, lba, datablock_idx, logblock_idx) ==
  IF Len(s.ftl.logblock_lbas_map[logblock_idx]) > block_size
  THEN RetryAfterClean(Clean(s, datablock_idx), lba)
  ELSE Success([s EXCEPT
                  !.ftl.logblock_lbas_map[logblock_idx] = Append(@, lba),
                  !.ftl.gc = DataBlockWrittenHandler(@, datablock_idx, FALSE)],
               GetAddrFromBlockPageIdx(logblock_idx,
                  Len(s.ftl.logblock_lbas_map[logblock_idx])))

\* WriteTranslate once the data block has its log block logblock_idx
WriteToLog(s, lba, datablock_idx, logblock_idx) ==
  IF Len(s.ftl.logblock_lbas_map[logblock_idx]) = block_size
  THEN RetryAfterClean(Clean(s, datablock_idx), lba)
  ELSE Success([s EXCEPT
                  !.ftl.logblock_lbas_map[logblock_idx] = Append(@, lba),
                  !.ftl.gc = DataBlockWrittenHandler(@, datablock_idx, FALSE)],
               GetAddrFromBlockPageIdx(logblock_idx,
                  Len(s.ftl.logblock_lbas_map[logblock_idx])))

\* MyFTL::WriteTranslate; returns [s, state, addr]
WriteTranslate(s, lba) ==
  IF s.exc # "none" THEN Failure(s)
  ELSE IF ~IsValidLba(s.ftl, lba) THEN Failure(s)
  ELSE IF ~s.ftl.pages_valid[GetPageIdx(CalcPhyAddr(lba))]
  THEN Success([s EXCEPT !.ftl.pages_valid[GetPageIdx(CalcPhyAddr(lba))] = TRUE,
                         !.ftl.gc = DataBlockWrittenHandler(
                                      @, GetBlockIdx(CalcPhyAddr(lba)), TRUE)],
               CalcPhyAddr(lba))
  ELSE IF /\ ~HasKey(s.ftl.data_logblock_map, GetBlockIdx(CalcPhyAddr(lba)))
          /\ s.ftl.free_log_blocks = <<>>
  THEN RetryAfterClean(CleanSelected(SelectBlockToClean(s)), lba)
  ELSE WriteToLog(WithLogBlock(s, GetBlockIdx(CalcPhyAddr(lba))), lba,
                  GetBlockIdx(CalcPhyAddr(lba)),
                  IF HasKey(s.ftl.data_logblock_map, GetBlockIdx(CalcPhyAddr(lba)))
                  THEN s.ftl.data_logblock_map[GetBlockIdx(CalcPhyAddr(lba))]
                  ELSE Head(s.ftl.free_log_blocks))

\* MyFTL::Trim
Trim(s, lba) == [s |-> s, state |-> "SUCCESS"]

\* MyFTL::MyFTL
FTLInit ==
  LET op_blocks == [i \in 1..num_op_blocks |-> num_blocks - num_op_blocks + i - 1]
      ncb == num_op_blocks \div 2
  IN [largest_lba |-> (num_blocks - num_op_blocks) * block_size - 1,
      free_log_blocks |-> SubSeq(op_blocks, ncb + 1, num_op_blocks),
      cleanblock_idxs |-> SubSeq(op_blocks, 1, ncb),
      data_logblock_map |-> EmptyMap,
      pages_valid |-> [p \in 0..(num_pages - 1) |-> FALSE],
      erase_counts |-> [b \in 0..(num_blocks - 1) |-> 0],
      logblock_lbas_map |-> EmptyMap,
      curr_cleanblock_idx |-> 0,
      gc |-> GCInit]

\* Controller::Controller
CtrlInit ==
  [page_buffer |-> <<>>, block_erasure_map |-> EmptyMap,
   physical_logical_map |-> EmptyMap, slots |-> EmptyMap, num_erases |-> 0]

(***************************************************************************)
(* Host operations: FlashSimTest::Write/Read/Trim around                   *)
(* Controller::WriteLBA/ReadLBA/Trim.                                      *)
(***************************************************************************)
\* the state handed to the translate call of one host operation
Enter(order, ub) ==
  [ftl |-> ftl, ctrl |-> ctrl, exc |-> "none", trace |-> <<>>, cleans |-> <<>>,
   order |-> order, ub |-> ub]

EnsureStateIsClean(s) ==
  IF s.exc # "none" THEN s
  ELSE IF Len(s.ctrl.page_buffer) # 0 THEN Throw(s, "state_not_clean")
  ELSE s

\* EnsureStateIsClean() on what a translate call returned
Checked(ret) == [ret EXCEPT !.s = EnsureStateIsClean(@)]

\* WriteLBA after the translation: buffer the host's page, issue the WRITE
IssueWrite(ret, page, lba) ==
  IF ret.s.exc # "none" \/ ret.state = "FAILURE"
  THEN [s |-> ret.s, state |-> "FAILURE", addr |-> ret.addr]
  ELSE [s |-> ExecuteCommand(
                [ret.s EXCEPT !.ctrl.page_buffer = Append(@, [page |-> page, lba |-> lba])],
                "WRITE", ret.addr),
        state |-> "SUCCESS", addr |-> ret.addr]

\* Controller::WriteLBA; returns [s, state, addr]
WriteLBA(s0, page, lba) == IssueWrite(Checked(WriteTranslate(s0, lba)), page, lba)

\* ReadLBA after the READ: hand the buffered page to the host
Deliver(s, addr) ==
  IF s.exc # "none"
  THEN [s |-> s, state |-> "FAILURE", page |-> 0, addr |-> addr]
  ELSE [s |-> [s EXCEPT !.ctrl.page_buffer = Tail(@)],
        state |-> "SUCCESS",
        page |-> Head(s.ctrl.page_buffer).page,
        addr |-> addr]

IssueRead(ret) ==
  IF ret.s.exc # "none" \/ ret.state = "FAILURE"
  THEN [s |-> ret.s, state |-> "FAILURE", page |-> 0, addr |-> ret.addr]
  ELSE Deliver(ExecuteCommand(ret.s, "READ", ret.addr), ret.addr)

\* Controller::ReadLBA; returns [s, state, page, addr]
ReadLBA(s0, lba) == IssueRead(Checked(ReadTranslate(s0, lba)))

\* Controller::Trim; returns [s, state]
CtrlTrim(s0, lba) == Checked(Trim(s0, lba))

\* what FlashSimTest returns: 1, 0, -1 (exception caught), or the process died
Outcome(s, state) ==
  IF s.exc = "crash" THEN "CRASH"
  ELSE IF s.exc # "none" THEN "FATAL"
  ELSE state

\* every test of the repository stops at the first -1 (goto failed)
Running == last.result \in {"NONE", "SUCCESS", "FAILURE"}

DataBlocks == 0..(num_blocks - num_op_blocks - 1)

\* iteration orders of an unordered_map keyed by data block
Orders ==
  LET n == Cardinality(DataBlocks) IN
  IF conf.gc_policy \in {2, 3}
  THEN {o \in [1..n -> DataBlocks] : \A i, j \in 1..n : i # j => o[i] # o[j]}
  ELSE {[i \in 1..n |-> i - 1]}

\* outcomes of an undefined read: -1 ends the process; otherwise the value
\* read, an arbitrary size_t, here the least and the largest
UBOutcomes == {-1, 0, SizeMax}

LBAs == 0..(num_pages - 1)

\* the payload of the next write to lba: distinct from every payload written
\* before to any LBA (the FTL and the Controller never inspect a payload)
FreshValue(lba) == IF data[lba] = 0 THEN num_pages + lba ELSE data[lba] + num_pages

NoHist == [lba |-> -1, n |-> 0]

\* the run of writes to one LBA that opened the history (reads of that LBA
\* in between do not end it)
HistAfter(op, lba) ==
  CASE op = "Write" /\ hist.lba = -1 -> [lba |-> lba, n |-> 1]
    [] op = "Write" /\ hist.n > 0 /\ hist.lba = lba ->
         [lba |-> lba, n |-> IF hist.n < MaxHist THEN hist.n + 1 ELSE hist.n]
    [] op = "Read" /\ hist.n > 0 /\ hist.lba = lba -> hist
    [] OTHER -> [lba |-> -2, n |-> 0]

\* the elements of sequence q
Range(q) == {q[i] : i \in 1..Len(q)}

\* the data blocks in the order in which their current log blocks were
\* allocated, and in the order of their most recent successful write
NoAge == [alloc |-> <<>>, used |-> <<>>]

\* sequence q without the elements of S
RECURSIVE Without(_, _)
Without(q, S) ==
  IF q = <<>> THEN <<>>
  ELSE IF Head(q) \in S THEN Without(Tail(q), S)
  ELSE <<Head(q)>> \o Without(Tail(q), S)

\* the elements of S in ascending order
RECURSIVE Ascending(_)
Ascending(S) ==
  IF S = {} THEN <<>>
  ELSE <<CHOOSE x \in S : \A y \in S : x <= y>>
         \o Ascending(S \ {CHOOSE x \in S : \A y \in S : x <= y})

\* the allocation order q once the data blocks of `released` gave their log
\* blocks back and the data blocks of `holders` hold one: the log blocks
\* allocated since are the youngest
AllocAfter(q, holders, released) ==
  Without(q, released \cup (Range(q) \ holders))
    \o Ascending(holders \ Range(Without(q, released)))

\* the orders after a Write(lba) that returned r: a successful Write ran its
\* passes to the end and wrote the data block of lba
AgeAfter(r, lba) ==
  IF Outcome(r.s, r.state) = "SUCCESS"
  THEN [alloc |-> AllocAfter(ages.alloc, DOMAIN r.s.ftl.data_logblock_map,
                             {r.s.cleans[i].blk : i \in 1..Len(r.s.cleans)}),
        used |-> Append(Without(ages.used, {GetBlockIdx(CalcPhyAddr(lba))}),
                        GetBlockIdx(CalcPhyAddr(lba)))]
  ELSE [ages EXCEPT !.alloc = AllocAfter(@, DOMAIN r.s.ftl.data_logblock_map, {})]

\* the ERASE commands among those of state s that the Controller carried
\* out: every one but a last one that raised its exception
Accepted(s) ==
  {i \in 1..Len(s.trace) :
     /\ s.trace[i].op = "ERASE"
     /\ ~(/\ i = Len(s.trace)
          /\ \/ s.exc = "block_dead"
             \/ s.exc = "state_not_clean" /\ s.trace[i].buf > 0)}

\* the number of ERASE commands each block has accepted, after those of s
ErasedAfter(s) ==
  [b \in DOMAIN erased |->
     erased[b] + Cardinality({i \in Accepted(s) : s.trace[i].phys \div block_size = b})]

\* the state after construction of FlashSimTest for one of the configurations cs
Fresh(cs) ==
  /\ conf \in cs
  /\ ftl = FTLInit
  /\ ctrl = CtrlInit
  /\ last = [op |-> "init", lba |-> 0, val |-> 0, result |-> "NONE", exc |-> "none",
             page |-> 0, addr |-> -1, trace |-> <<>>, cleans |-> <<>>]
  /\ data = [l \in LBAs |-> 0]
  /\ hist = NoHist
  /\ ages = NoAge
  /\ erased = [b \in 0..(num_blocks - 1) |-> 0]

Init == Fresh(Configs)

\* what one Write can return: the run in which an undefined read ends the
\* process, and, if the operation performs one, the runs that go on with a
\* value read
WriteOutcomes(r0, order, val, lba) ==
  IF r0.s.exc = "crash"
  THEN {r0} \cup {WriteLBA(Enter(order, ub), val, lba) : ub \in UBOutcomes \ {-1}}
  ELSE {r0}

Returned(op, lba, val, r, page) ==
  [op |-> op, lba |-> lba, val |-> val, result |-> Outcome(r.s, r.state),
   exc |-> r.s.exc,
   page |-> IF Outcome(r.s, r.state) = "SUCCESS" THEN page ELSE 0,
   addr |-> IF Outcome(r.s, r.state) = "SUCCESS" /\ op # "Trim"
            THEN AddressToLBA(r.addr) ELSE -1,
   trace |-> r.s.trace, cleans |-> r.s.cleans]

HostWrite ==
  /\ Running
  /\ \E lba \in conf.writes, order \in Orders :
       \E r \in WriteOutcomes(WriteLBA(Enter(order, -1), FreshValue(lba), lba),
                              order, FreshValue(lba), lba) :
          /\ ftl' = r.s.ftl
          /\ ctrl' = r.s.ctrl
          /\ last' = Returned("Write", lba, FreshValue(lba), r, 0)
          /\ data' = IF Outcome(r.s, r.state) = "SUCCESS"
                     THEN [data EXCEPT ![lba] = FreshValue(lba)] ELSE data
          /\ hist' = HistAfter("Write", lba)
          /\ ages' = AgeAfter(r, lba)
          /\ erased' = ErasedAfter(r.s)
  /\ UNCHANGED conf

HostRead ==
  /\ Running
  /\ \E lba \in conf.reads :
       \E r \in {ReadLBA(Enter(<<>>, -1), lba)} :
          /\ ftl' = r.s.ftl
          /\ ctrl' = r.s.ctrl
          /\ last' = Returned("Read", lba, 0, r, r.page)
          /\ hist' = HistAfter("Read", lba)
          /\ erased' = ErasedAfter(r.s)
  /\ UNCHANGED <<conf, data, ages>>

HostTrim ==
  /\ Running
  /\ \E lba \in conf.trims :
       \E r \in {CtrlTrim(Enter(<<>>, -1), lba)} :
          /\ ftl' = r.s.ftl
          /\ ctrl' = r.s.ctrl
          /\ last' = Returned("Trim", lba, 0, r, 0)
          /\ hist' = HistAfter("Trim", lba)
          /\ erased' = ErasedAfter(r.s)
  /\ UNCHANGED <<conf, data, ages>>

Next == HostWrite \/ HostRead \/ HostTrim

(***************************************************************************)
(* The Controller driven command by command, as an FTL drives it through   *)
(* the callback of its translate calls: READ, WRITE and ERASE on any page  *)
(* or block, and the push of the host's page by WriteLBA.                  *)
(***************************************************************************)
\* the (payload, LBA) pairs the host hands to WriteLBA
Pushes == {[page |-> 1, lba |-> 0], [page |-> 2, lba |-> 1]}

\* what one command left behind
Commanded(op, target, s) ==
  [op |-> op, lba |-> target, val |-> 0, result |-> Outcome(s, "SUCCESS"),
   exc |-> s.exc, page |-> 0, addr |-> -1, trace |-> s.trace, cleans |-> <<>>]

\* WriteLBA: page_buffer.push(std::make_pair(page, lba)) on a clean buffer
CmdPush ==
  /\ Running
  /\ ctrl.page_buffer = <<>>
  /\ \E pair \in Pushes :
       /\ ctrl' = [ctrl EXCEPT !.page_buffer = Append(@, pair)]
       /\ last' = Commanded("PUSH", pair.lba, Enter(<<>>, -1))
  /\ UNCHANGED <<conf, ftl, data, hist, ages, erased>>

\* ExecuteCommand(OpCode::READ, addr)
CmdRead ==
  /\ Running
  /\ Len(ctrl.page_buffer) < MaxBuf
  /\ \E p \in 0..(num_pages - 1) :
       \E s \in {ExecuteCommand(Enter(<<>>, -1), "READ", CalcPhyAddr(p))} :
          /\ ctrl' = s.ctrl
          /\ last' = Commanded("READ", p, s)
  /\ UNCHANGED <<conf, ftl, data, hist, ages, erased>>

\* ExecuteCommand(OpCode::WRITE, addr)
CmdWrite ==
  /\ Running
  /\ \E p \in 0..(num_pages - 1) :
       \E s \in {ExecuteCommand(Enter(<<>>, -1), "WRITE", CalcPhyAddr(p))} :
          /\ ctrl' = s.ctrl
          /\ last' = Commanded("WRITE", p, s)
  /\ UNCHANGED <<conf, ftl, data, hist, ages, erased>>

\* ExecuteCommand(OpCode::ERASE, addr)
CmdErase ==
  /\ Running
  /\ \E b \in 0..(num_blocks - 1) :
       \E s \in {ExecuteCommand(Enter(<<>>, -1), "ERASE", GetAddrFromBlockIdx(b))} :
          /\ ctrl' = s.ctrl
          /\ last' = Commanded("ERASE", b, s)
          /\ erased' = ErasedAfter(s)
  /\ UNCHANGED <<conf, ftl, data, hist, ages>>

NextCtrl == CmdPush \/ CmdRead \/ CmdWrite \/ CmdErase

(***************************************************************************)
(* The page-mapped FTL (the MyFTL of src/unnamed/part_002): every write    *)
(* goes to the next page of the current log block.  In the behaviours of   *)
(* this FTL the variable ftl holds its members.                            *)
(***************************************************************************)
\* std::numeric_limits<uint16_t>::max()
INVALID_PAGE == 65535

GetAddrFromPageIdx(page_idx) ==
  Address(page_idx \div (conf.package_size * conf.die_size * conf.plane_size * block_size),
          (page_idx \div (conf.die_size * conf.plane_size * block_size)) % conf.package_size,
          (page_idx \div (conf.plane_size * block_size)) % conf.die_size,
          (page_idx \div block_size) % conf.plane_size,
          page_idx % block_size)

\* MyFTL::MyFTL of the page-mapped FTL
PageMapInit ==
  [largest_lba_ |-> (num_blocks - num_op_blocks) * block_size - 1,
   lba_page_map_ |-> [l \in 0..((num_blocks - num_op_blocks) * block_size - 1)
                        |-> INVALID_PAGE],
   page_lba_map_ |-> [p \in 0..(num_pages - 1) |-> INVALID_PAGE],
   block_erase_map_ |-> [b \in 0..(num_blocks - 1) |-> 0],
   free_log_blocks_ |-> [i \in 1..(num_blocks - 1) |-> i],
   used_log_blocks_ |-> <<>>,
   log_block_ |-> 0,
   log_page_offset_ |-> 0]

\* ReadTranslate of the page-mapped FTL; returns [f, state, addr]
PageMapReadTranslate(f, lba) ==
  IF ~(lba <= f.largest_lba_)
  THEN [f |-> f, state |-> "FAILURE", addr |-> Address(0, 0, 0, 0, 0)]
  ELSE IF f.lba_page_map_[lba] = INVALID_PAGE
  THEN [f |-> f, state |-> "FAILURE", addr |-> Address(0, 0, 0, 0, 0)]
  ELSE [f |-> f, state |-> "SUCCESS", addr |-> GetAddrFromPageIdx(f.lba_page_map_[lba])]

\* the roll-over to the next free log block when the current one is full
NextLogBlock(f) ==
  IF f.log_page_offset_ >= block_size
  THEN [f EXCEPT !.used_log_blocks_ = Append(@, f.log_block_),
                 !.log_block_ = Head(f.free_log_blocks_),
                 !.free_log_blocks_ = Tail(@),
                 !.log_page_offset_ = 0]
  ELSE f

\* the write that leaves the previous page of the LBA mapped
PageMapAppendKeepPrev(f, lba) ==
  [f |-> [f EXCEPT !.page_lba_map_ =
                      [@ EXCEPT ![f.log_block_ * block_size + f.log_page_offset_] = lba],
                   !.lba_page_map_[lba] = f.log_block_ * block_size + f.log_page_offset_,
                   !.log_page_offset_ = @ + 1],
   state |-> "SUCCESS",
   addr |-> GetAddrFromPageIdx(f.log_block_ * block_size + f.log_page_offset_)]

\* invalidate the previous page of the LBA, map it to the next page of the
\* current log block
PageMapAppend(f, lba) ==
  [f |-> [f EXCEPT !.page_lba_map_ =
                      [[p \in DOMAIN @ |->
                          IF f.lba_page_map_[lba] # INVALID_PAGE /\ p = f.lba_page_map_[lba]
                          THEN INVALID_PAGE ELSE @[p]]
                         EXCEPT ![f.log_block_ * block_size + f.log_page_offset_] = lba],
                   !.lba_page_map_[lba] = f.log_block_ * block_size + f.log_page_offset_,
                   !.log_page_offset_ = @ + 1],
   state |-> "SUCCESS",
   addr |-> GetAddrFromPageIdx(f.log_block_ * block_size + f.log_page_offset_)]

\* WriteTranslate of the page-mapped FTL; returns [f, state, addr]
PageMapWriteTranslate(f, lba) ==
  IF ~(lba <= f.largest_lba_)
  THEN [f |-> f, state |-> "FAILURE", addr |-> Address(0, 0, 0, 0, 0)]
  ELSE IF f.log_page_offset_ >= block_size /\ f.free_log_blocks_ = <<>>
  THEN [f |-> f, state |-> "FAILURE", addr |-> Address(0, 0, 0, 0, 0)]
  ELSE PageMapAppend(NextLogBlock(f), lba)

\* Trim of the page-mapped FTL; returns [f, state]
PageMapTrim(f, lba) ==
  IF ~(lba <= f.largest_lba_) THEN [f |-> f, state |-> "FAILURE"]
  ELSE [f |-> f, state |-> "SUCCESS"]

\* what one translate call left behind
Translated(op, lba, r, a) ==
  [op |-> op, lba |-> lba, val |-> 0, result |-> r.state, exc |-> "none",
   page |-> 0, addr |-> a,
   trace |-> <<>>, cleans |-> <<>>]

\* the state after construction with the page-mapped FTL
FreshPageMap(cs) ==
  /\ conf \in cs
  /\ ftl = PageMapInit
  /\ ctrl = CtrlInit
  /\ last = [op |-> "init", lba |-> 0, val |-> 0, result |-> "NONE", exc |-> "none",
             page |-> 0, addr |-> -1, trace |-> <<>>, cleans |-> <<>>]
  /\ data = [l \in LBAs |-> 0]
  /\ hist = NoHist
  /\ ages = NoAge
  /\ erased = [b \in 0..(num_blocks - 1) |-> 0]

PageMapWrite ==
  /\ \E lba \in conf.writes :
       \E r \in {PageMapWriteTranslate(ftl, lba)} :
          /\ ftl' = r.f
          /\ last' = Translated("WriteTranslate", lba, r, r.addr)
  /\ UNCHANGED <<conf, ctrl, data, hist, ages, erased>>

PageMapRead ==
  /\ \E lba \in conf.reads :
       \E r \in {PageMapReadTranslate(ftl, lba)} :
          /\ ftl' = r.f
          /\ last' = Translated("ReadTranslate", lba, r, r.addr)
  /\ UNCHANGED <<conf, ctrl, data, hist, ages, erased>>

PageMapTrimmed ==
  /\ \E lba \in conf.trims :
       \E r \in {PageMapTrim(ftl, lba)} :
          /\ ftl' = r.f
          /\ last' = Translated("Trim", lba, r, Address(0, 0, 0, 0, 0))
  /\ UNCHANGED <<conf, ctrl, data, hist, ages, erased>>

NextPageMap == PageMapWrite \/ PageMapRead \/ PageMapTrimmed

(***************************************************************************)
(* The address codec applied once to a page index or to a (block, offset)  *)
(* of a geometry.  `last.val` is the tuple computed.                       *)
(***************************************************************************)
Converted(op, n, off, a) ==
  [op |-> op, lba |-> n, val |-> a, result |-> "SUCCESS", exc |-> "none",
   page |-> off, addr |-> GetPageIdx(a), trace |-> <<>>, cleans |-> <<>>]

\* CalcPhyAddr(lba)
CodecPage ==
  /\ last.op = "init"
  /\ \E p \in 0..(num_pages - 1) :
       last' = Converted("CalcPhyAddr", p, 0, CalcPhyAddr(p))
  /\ UNCHANGED <<conf, ftl, ctrl, data, hist, ages, erased>>

\* GetAddrFromBlockPageIdx(block_idx, page_idx)
CodecBlock ==
  /\ last.op = "init"
  /\ \E b \in 0..(num_blocks - 1), i \in 0..(block_size - 1) :
       last' = Converted("GetAddrFromBlockPageIdx", b, i, GetAddrFromBlockPageIdx(b, i))
  /\ UNCHANGED <<conf, ftl, ctrl, data, hist, ages, erased>>

NextCodec == CodecPage \/ CodecBlock

Spec == Init /\ [][Next]_vars

\* the round-robin configurations alone
SpecWear == Fresh(Wear) /\ [][Next]_vars

\* round robin with a first write that comes late
SpecStale == Fresh(Stale) /\ [][Next]_vars

\* two log blocks, round robin and LRU
SpecPair == Fresh(Pair) /\ [][Next]_vars

\* two log blocks, greedy and cost-benefit
SpecTie == Fresh(Tie) /\ [][Next]_vars

\* round robin on fully written data blocks
SpecLost == Fresh(Lost) /\ [][Next]_vars

\* the Controller alone, under every sequence of commands
SpecCtrl == Fresh(Raw) /\ [][NextCtrl]_vars

\* the page-mapped FTL under host writes, reads and trims
SpecPageMap == FreshPageMap(PageMapped) /\ [][NextPageMap]_vars

\* the address codec on every geometry
SpecCodec == Fresh(Shapes) /\ [][NextCodec]_vars

\* devices with fewer than two over-provisioned blocks
SpecBare == Fresh(Bare) /\ [][Next]_vars

(***************************************************************************)
(* Properties.  `last` is the host operation that led to the current       *)
(* state, `data[L]` the payload of the last successful Write(L, _) (0 when *)
(* there was none), as the tests keep it in their own array.               *)
(***************************************************************************)
InRange(lba) == lba <= ftl.largest_lba

\* what a host Read(lba) issued in the current state would return
Answer(r) == [result |-> Outcome(r.s, r.state), page |-> r.page]

ReadBack(lba) == Answer(ReadLBA(Enter(<<>>, -1), lba))

\* C1: a Read(L) of an in-range LBA that follows a successful Write(L, x),
\* with no later successful Write(L, _), returns SUCCESS and delivers x.
C1_ReadAfterWrite ==
  (last.op = "Read" /\ InRange(last.lba) /\ data[last.lba] # 0)
    => (last.result = "SUCCESS" /\ last.page = data[last.lba])

\* C2: no WRITE of a host operation, issued by Clean or for the host's own
\* page, targets a page that is bound in the Controller, and no host
\* operation ends in the 'dirty physical page' error.
C2_NoWriteToBoundPage ==
  /\ last.exc # "dirty_write"
  /\ \A i \in 1..Len(last.trace) :
       last.trace[i].op = "WRITE" => ~last.trace[i].bound

\* C3: largest_lba = (num_blocks - num_op_blocks) * block_size - 1 with
\* num_op_blocks = (num_blocks * OP + 50) / 100; a Read or Write above it
\* returns FAILURE, issues no controller operation and changes nothing in the
\* FTL or the Controller; a Read or Write at or below it is not rejected.
C3_OutOfRange ==
  [][LET nb == conf.ssd_size * conf.package_size * conf.die_size * conf.plane_size
         nop == (nb * conf.overprovisioning + 50) \div 100
     IN /\ ftl.largest_lba = (nb - nop) * conf.block_size - 1
        /\ (last'.op \in {"Read", "Write"} /\ last'.lba > (nb - nop) * conf.block_size - 1)
             => (last'.result = "FAILURE" /\ last'.trace = <<>>
                 /\ ftl' = ftl /\ ctrl' = ctrl)
        /\ (last'.op = "Write" /\ last'.lba <= (nb - nop) * conf.block_size - 1
            /\ data[last'.lba] = 0)
             => (last'.result # "FAILURE" /\ ftl'.pages_valid[last'.lba])
        /\ (last'.op = "Read" /\ last'.lba <= (nb - nop) * conf.block_size - 1
            /\ data[last'.lba] # 0)
             => last'.result # "FAILURE"]_vars

\* a rejected access above largest_lba on a device that has collected garbage
C3_Witness ==
  /\ last.op \in {"Read", "Write"} /\ last.lba = ftl.largest_lba + 1
  /\ last.result = "FAILURE"
  /\ ctrl.num_erases > 0
  /\ data[ftl.largest_lba] # 0

\* C4: a Read of an in-range LBA that was never written returns FAILURE and
\* issues no controller operation.
C4_ReadUnwritten ==
  (last.op = "Read" /\ InRange(last.lba) /\ data[last.lba] = 0)
    => (last.result = "FAILURE" /\ last.trace = <<>>)

\* such a Read after the other LBA of the same data block was written,
\* rewritten and garbage-collected
C4_Witness ==
  /\ last.op = "Read" /\ last.lba = 2 /\ data[2] = 0 /\ data[3] # 0
  /\ last.result = "FAILURE"
  /\ ftl.erase_counts[1] > 0

\* C5: when a Write of an in-range LBA returns FAILURE, some block has no
\* erases left in the Controller's ledger; and a Write of an in-range LBA
\* that starts while every block has erases left returns SUCCESS.
C5_FailureOnlyWhenWornOut ==
  [][(last'.op = "Write" /\ InRange(last'.lba))
       => /\ last'.result = "FAILURE" => AtLeastOneBlockWornOut(ctrl')
          /\ ~AtLeastOneBlockWornOut(ctrl) => last'.result = "SUCCESS"]_vars

\* C6: after a Write of an in-range LBA returned FAILURE, every LBA written
\* before reads back SUCCESS with the payload of its last successful write.
C6_FailedWriteLosesNothing ==
  (last.op = "Write" /\ InRange(last.lba) /\ last.result = "FAILURE")
    => \A l \in LBAs : (InRange(l) /\ data[l] # 0)
          => ReadBack(l) = [result |-> "SUCCESS", page |-> data[l]]

\* C7: every remaining-erase counter is in 0..block_erase_count and no host
\* operation ends in the 'block worn out' error.
C7_EraseBudget ==
  /\ last.exc # "block_dead"
  /\ \A b \in DOMAIN ctrl.block_erasure_map :
       ctrl.block_erasure_map[b] \in 0..block_erase_count

\* C8: the page buffer is empty when a host operation has ended and at every
\* ERASE, and a READ issued during a Write finds the buffer empty and is
\* followed at once by a WRITE.
C8_BufferDiscipline ==
  /\ ctrl.page_buffer = <<>>
  /\ \A i \in 1..Len(last.trace) :
       /\ last.trace[i].op = "ERASE" => last.trace[i].buf = 0
       /\ (last.op = "Write" /\ last.trace[i].op = "READ")
            => /\ last.trace[i].buf = 0
               /\ i < Len(last.trace) => last.trace[i + 1].op = "WRITE"

\* C9: a Read(L) that follows a Trim(L) of an in-range LBA holding data, with
\* no Write(L, _) in between, returns FAILURE.
C9_ReadAfterTrim ==
  [][(last.op = "Trim" /\ last.result = "SUCCESS" /\ InRange(last.lba)
      /\ data[last.lba] # 0 /\ last'.op = "Read" /\ last'.lba = last.lba)
       => last'.result = "FAILURE"]_vars

\* C10: on a fresh device with BLOCK_ERASES >= 2 and a log block, each of the
\* first block_size + 1 writes, all to one LBA of the device (at most
\* largest_lba), returns SUCCESS and a Read after any of them returns the
\* payload just written.
C10_HotLba ==
  (block_erase_count >= 2 /\ Len(FTLInit.free_log_blocks) >= 1
   /\ hist.n \in 1..(block_size + 1) /\ InRange(hist.lba))
    => /\ last.lba = hist.lba
       /\ last.op = "Write" => last.result = "SUCCESS"
       /\ last.op = "Read" => (last.result = "SUCCESS" /\ last.page = data[hist.lba])

\* the Read after the last of the block_size + 1 writes
C10_Witness ==
  /\ block_erase_count >= 2 /\ hist.n = block_size + 1 /\ InRange(hist.lba)
  /\ last.op = "Read" /\ last.result = "SUCCESS" /\ last.page = data[hist.lba]

\* C11: on a fresh device, when write number block_size + 1 of a run of
\* writes to one LBA of the device has completed, every write of the run has
\* returned SUCCESS and the Controller has executed at least one ERASE.
C11_EraseByWriteBPlus1 ==
  (InRange(hist.lba) /\ hist.n = block_size + 1 /\ last.op = "Write")
    => (last.result = "SUCCESS" /\ ctrl.num_erases >= 1)

\* C11 as amended: with BLOCK_ERASES >= 1, a log block and a cleaning block,
\* the first block_size + 1 writes of the run return SUCCESS
\* and no ERASE has been executed when they have completed (the first write
\* takes the home page, the next block_size fill the log block); at least one
\* ERASE has been executed when write number block_size + 2 has completed.
C11_EraseByWriteBPlus2 ==
  (block_erase_count >= 1 /\ Len(FTLInit.free_log_blocks) >= 1
   /\ Len(FTLInit.cleanblock_idxs) >= 1 /\ InRange(hist.lba) /\ hist.n >= 1)
    => /\ hist.n <= block_size + 1
            => /\ last.lba = hist.lba
               /\ last.op = "Write" => last.result = "SUCCESS"
               /\ ctrl.num_erases = 0
       /\ hist.n >= block_size + 2 => ctrl.num_erases >= 1

\* write number block_size + 2 of the run has just run the first GC pass
C11_Witness ==
  /\ InRange(hist.lba) /\ hist.n = block_size + 2
  /\ last.op = "Write" /\ last.lba = hist.lba /\ last.result = "SUCCESS"
  /\ ctrl.num_erases = 3
  /\ Len(last.cleans) = 1

\* the controller commands of kind op in the trace tr of a host operation
TraceCount(tr, op) == Cardinality({i \in 1..Len(tr) : tr[i].op = op})

\* the blocks that the ERASE commands of tr were issued on
ErasedBlocks(tr) ==
  {tr[i].phys \div block_size : i \in {j \in 1..Len(tr) : tr[j].op = "ERASE"}}

\* the data block of an LBA, and the LBAs a data block is the home of
BlockOf(lba) == GetBlockIdx(CalcPhyAddr(lba))

LbasOf(b) == {l \in LBAs : InRange(l) /\ BlockOf(l) = b}

\* the controller commands of the GC pass of a Write that went on to issue
\* the host's own WRITE: all but the last
PassOf(tr) == SubSeq(tr, 1, Len(tr) - 1)

\* C12: a GC pass that succeeds erases exactly three blocks, the victim data
\* block, the log block assigned to it and one cleaning block, and issues
\* exactly 2*k READs and 2*k WRITEs, k being the number of LBAs of the victim
\* that have been written; it issues nothing else.
C12_CostOfOnePass ==
  [][(last'.op = "Write" /\ last'.result = "SUCCESS" /\ Len(last'.cleans) = 1)
       => /\ last'.cleans[1].assigned
          /\ TraceCount(PassOf(last'.trace), "ERASE") = 3
          /\ ErasedBlocks(PassOf(last'.trace))
               = {last'.cleans[1].blk,
                  ftl.data_logblock_map[last'.cleans[1].blk],
                  ftl.cleanblock_idxs[ftl.curr_cleanblock_idx + 1]}
          /\ TraceCount(PassOf(last'.trace), "READ")
               = 2 * Cardinality({l \in LbasOf(last'.cleans[1].blk) : data[l] # 0})
          /\ TraceCount(PassOf(last'.trace), "WRITE")
               = 2 * Cardinality({l \in LbasOf(last'.cleans[1].blk) : data[l] # 0})]_vars

\* C13: a Write of an in-range LBA that was never written returns SUCCESS,
\* is directed to the LBA's home page (physical page index = LBA) and issues
\* no READ, no ERASE and no WRITE other than the host's own at that page.
C13_FirstWriteNoGC ==
  [][(last'.op = "Write" /\ InRange(last'.lba) /\ data[last'.lba] = 0)
       => /\ last'.result = "SUCCESS"
          /\ last'.addr = last'.lba
          /\ last'.cleans = <<>>
          /\ Len(last'.trace) = 1
          /\ last'.trace[1].op = "WRITE" /\ last'.trace[1].phys = last'.lba]_vars

\* the number of successful writes of an LBA (each payload is the previous
\* one of the LBA plus num_pages, the first is num_pages + lba)
Writes(lba) == data[lba] \div num_pages

\* the successful rewrites (writes after the first) of page offsets 0..i of
\* data block b
RECURSIVE Rewrites(_, _)
Rewrites(b, i) ==
  IF i < 0 THEN 0
  ELSE LET w == Writes(GetPageIdx(GetAddrFromBlockPageIdx(b, i)))
       IN (IF w > 1 THEN w - 1 ELSE 0) + Rewrites(b, i - 1)

\* the workload so far has written LBAs of data block b and of no other
OnlyBlockWritten(b) ==
  /\ \E l \in LbasOf(b) : data[l] # 0
  /\ \A l \in LBAs : (InRange(l) /\ BlockOf(l) # b) => data[l] = 0

\* the erases the Controller's ledger has left for block b
Remaining(c, b) ==
  IF HasKey(c.block_erasure_map, b * block_size)
  THEN c.block_erasure_map[b * block_size] ELSE block_erase_count

BoundTo(c, r, lba) ==
  r.state = "SUCCESS"
    => /\ HasKey(c.physical_logical_map, AddressToLBA(r.addr))
       /\ c.physical_logical_map[AddressToLBA(r.addr)] = lba

\* C15: after every host operation that returned to the host, for every
\* in-range LBA L for which ReadTranslate answers (SUCCESS, P), the Controller
\* holds a physical-to-logical binding for P, and it is L.
C15_MappingConsistent ==
  Running => \A l \in LBAs :
               InRange(l) => BoundTo(ctrl, ReadTranslate(Enter(<<>>, -1), l), l)

\* C16: every data block that Clean is called on has a log block assigned in
\* data_logblock_map when Clean starts.
C16_VictimHasLogBlock ==
  \A i \in 1..Len(last.cleans) : last.cleans[i].assigned

\* the data blocks the policy keeps track of, one entry per occurrence
Tracked(g) ==
  CASE conf.gc_policy = 0 -> g.blocks_queue
    [] conf.gc_policy = 1 -> [i \in 1..Len(g.blocks_lru) |-> g.blocks_lru[i].blk]
    [] OTHER -> IterKeys([i \in 1..num_blocks |-> i - 1], g.block_livepages_map)

\* C17: after every host operation that returned to the host, the data blocks
\* tracked by the GC policy are the data blocks that have a log block
\* assigned, each tracked once.
C17_PolicyTracksUsedLogs ==
  Running => /\ Range(Tracked(ftl.gc)) = DOMAIN ftl.data_logblock_map
             /\ Len(Tracked(ftl.gc)) = Cardinality(Range(Tracked(ftl.gc)))

\* the log block Clean(v) works on in FTL state f (operator[] of
\* data_logblock_map yields block 0 for a block without a log block)
LogBlockOf(f, v) == IndexOrInsert(f.data_logblock_map, v, 0)[v]

\* C18: when Clean runs on a victim while the victim, its log block or the
\* cleaning block of the pass has no erases remaining, the Write issues no
\* controller operation at all and returns FAILURE.
C18_AbortOnExhaustion ==
  [][(last'.op = "Write" /\ last'.cleans # <<>>
      /\ last'.cleans[1].blk \in DOMAIN ftl.erase_counts
      /\ \/ Remaining(ctrl, last'.cleans[1].blk) = 0
         \/ Remaining(ctrl, LogBlockOf(ftl, last'.cleans[1].blk)) = 0
         \/ Remaining(ctrl, ftl.cleanblock_idxs[ftl.curr_cleanblock_idx + 1]) = 0)
       => (last'.trace = <<>> /\ last'.result = "FAILURE")]_vars

\* an aborted pass on a victim that has erases left while its log block and
\* the cleaning block have none
C18_Witness ==
  /\ last.op = "Write" /\ last.result = "FAILURE" /\ last.trace = <<>>
  /\ Len(last.cleans) = 1 /\ last.cleans[1].assigned
  /\ last.cleans[1].blk \in DataBlocks
  /\ Remaining(ctrl, last.cleans[1].blk) > 0
  /\ Remaining(ctrl, ftl.data_logblock_map[last.cleans[1].blk]) = 0

\* C19: when a rewrite of an LBA has returned FAILURE with a block worn out,
\* the same Write repeated at once returns FAILURE again.
C19_FailureRepeats ==
  [][(last.op = "Write" /\ InRange(last.lba) /\ last.result = "FAILURE"
      /\ AtLeastOneBlockWornOut(ctrl)
      /\ last'.op = "Write" /\ last'.lba = last.lba)
       => last'.result = "FAILURE"]_vars

\* a translation r answers with the home page of lba
AtHome(r, lba) == r.state = "SUCCESS" /\ r.addr = CalcPhyAddr(lba)

\* C20: after a GC pass on data block D that succeeded, every written LBA of
\* D (other than the one the host is writing) is translated to its home page
\* in D and reads back the payload of its last write.
C20_LivePagesMigrated ==
  (last.op = "Write" /\ last.result = "SUCCESS" /\ Len(last.cleans) = 1
   /\ last.cleans[1].assigned)
    => \A l \in LbasOf(last.cleans[1].blk) :
         (data[l] # 0 /\ l # last.lba)
           => /\ AtHome(ReadTranslate(Enter(<<>>, -1), l), l)
              /\ ReadBack(l) = [result |-> "SUCCESS", page |-> data[l]]

\* C21: every READ issued during a Write, i.e. by a GC pass, targets a page
\* that is bound in the Controller, and no Write ends in the 'invalid
\* physical page' read error.
C21_GCReadsBoundPages ==
  last.op = "Write"
    => /\ last.exc # "invalid_read"
       /\ \A i \in 1..Len(last.trace) :
            last.trace[i].op = "READ" => last.trace[i].bound

\* the offsets at which lba is recorded in the log block of its data block
\* in FTL state f (none when the data block has no log block)
Recorded(f, lba) ==
  IF HasKey(f.data_logblock_map, BlockOf(lba))
  THEN LogHits(f, lba, f.data_logblock_map[BlockOf(lba)])
  ELSE {}

Highest(S) == CHOOSE i \in S : \A j \in S : j <= i

\* the translation r of lba in FTL state f follows the resolution rule,
\* issues nothing and leaves f as it is
Resolves(f, r, lba) ==
  /\ r.state = "SUCCESS"
  /\ r.s.trace = <<>>
  /\ r.s.ftl = f
  /\ IF Recorded(f, lba) # {}
     THEN /\ GetBlockIdx(r.addr) = f.data_logblock_map[BlockOf(lba)]
          /\ r.addr.page = Highest(Recorded(f, lba))
     ELSE AddressToLBA(r.addr) = lba

\* C22: for a written in-range LBA L of data block D, ReadTranslate answers
\* the page of D's log block at the highest offset recorded for L when there
\* is one, and L's home page otherwise; it issues no controller operation and
\* changes no FTL state.
C22_ReadResolution ==
  Running => \A l \in LBAs :
               (InRange(l) /\ data[l] # 0)
                 => Resolves(ftl, ReadTranslate(Enter(<<>>, -1), l), l)

\* C23: a host Write runs at most one GC pass and causes at most 3 ERASEs; a
\* Write whose pass succeeded goes on without a second Clean.
C23_OnePassPerWrite ==
  last.op = "Write"
    => /\ Len(last.cleans) <= 1
       /\ TraceCount(last.trace, "ERASE") <= 3

\* a Write whose single GC pass succeeded with its three ERASEs
C23_Witness ==
  /\ last.op = "Write" /\ last.result = "SUCCESS"
  /\ Len(last.cleans) = 1
  /\ TraceCount(last.trace, "ERASE") = 3
  /\ ftl.free_log_blocks = <<>>

\* FTL state g is FTL state f after a successful Clean(d), d having log block
\* l and the pass using cleaning block c: effect and frame
CleanEffect(f, g, d, l, c) ==
  /\ DOMAIN g.data_logblock_map = (DOMAIN f.data_logblock_map) \ {d}
  /\ g.free_log_blocks = Append(f.free_log_blocks, l)
  /\ g.logblock_lbas_map[l] = <<>>
  /\ \A b \in DOMAIN f.erase_counts :
       g.erase_counts[b] = f.erase_counts[b] + (IF b \in {d, l, c} THEN 1 ELSE 0)
  /\ g.pages_valid = f.pages_valid
  /\ \A o \in (DOMAIN f.data_logblock_map) \ {d} :
       /\ g.data_logblock_map[o] = f.data_logblock_map[o]
       /\ HasKey(f.logblock_lbas_map, f.data_logblock_map[o])
            => /\ HasKey(g.logblock_lbas_map, f.data_logblock_map[o])
               /\ g.logblock_lbas_map[f.data_logblock_map[o]]
                    = f.logblock_lbas_map[f.data_logblock_map[o]]

\* C24: a successful Clean(D) works on the log block assigned to D and leaves
\* D without a log block, D's former log
\* block at the back of the free list with an empty LBA list, the erase
\* counters of D, of that log block and of the cleaning block one higher each,
\* and everything else (validity bits, the log blocks and log contents of the
\* other data blocks, the other erase counters) as it was.
C24_CleanEffectAndFrame ==
  [][(last'.op = "Write" /\ last'.result = "SUCCESS" /\ Len(last'.cleans) = 1)
       => /\ last'.cleans[1].assigned
          /\ CleanEffect(ftl, Clean(Enter(<<>>, -1), last'.cleans[1].blk).s.ftl,
                         last'.cleans[1].blk,
                         ftl.data_logblock_map[last'.cleans[1].blk],
                         ftl.cleanblock_idxs[ftl.curr_cleanblock_idx + 1])]_vars

\* the blocks of the over-provisioned region
OpBlocks == (num_blocks - num_op_blocks)..(num_blocks - 1)

\* a sequence without repetitions
NoDup(q) == \A i, j \in 1..Len(q) : i # j => q[i] # q[j]

\* the log blocks assigned to data blocks in FTL state f
AssignedLogs(f) == {f.data_logblock_map[d] : d \in DOMAIN f.data_logblock_map}

\* C25: the free-log list, the assigned log blocks and the cleaning blocks
\* are pairwise disjoint, without duplicates, blocks of the over-provisioned
\* region only, each log block assigned to at most one data block; free and
\* assigned log blocks together number num_op_blocks - num_op_blocks / 2.
C25_BlockRoles ==
  Running =>
    /\ NoDup(ftl.free_log_blocks) /\ NoDup(ftl.cleanblock_idxs)
    /\ Range(ftl.free_log_blocks) \cap AssignedLogs(ftl) = {}
    /\ Range(ftl.free_log_blocks) \cap Range(ftl.cleanblock_idxs) = {}
    /\ AssignedLogs(ftl) \cap Range(ftl.cleanblock_idxs) = {}
    /\ (Range(ftl.free_log_blocks) \cup AssignedLogs(ftl)
          \cup Range(ftl.cleanblock_idxs)) \subseteq OpBlocks
    /\ \A d, e \in DOMAIN ftl.data_logblock_map :
         d # e => ftl.data_logblock_map[d] # ftl.data_logblock_map[e]
    /\ Len(ftl.free_log_blocks) + Cardinality(DOMAIN ftl.data_logblock_map)
         = num_op_blocks - num_op_blocks \div 2

\* the page offsets of block b that are written (bound) in the Controller c
WrittenOffsets(c, b) ==
  {i \in 0..(block_size - 1) :
     HasKey(c.physical_logical_map, AddressToLBA(GetAddrFromBlockPageIdx(b, i)))}

\* the recorded LBA list of log block l in FTL state f
LbasOfLog(f, l) == IF HasKey(f.logblock_lbas_map, l) THEN f.logblock_lbas_map[l] ELSE <<>>

\* C26: between host operations no cleaning block and no block of the
\* free-log list has a written page; the log block of a data block D has
\* written pages exactly at offsets 0..n-1, n <= block_size being the length
\* of its LBA list, and every LBA of the list belongs to D and has its
\* validity bit set.
C26_PhysicalCleanliness ==
  Running =>
    /\ \A b \in Range(ftl.cleanblock_idxs) \cup Range(ftl.free_log_blocks) :
         WrittenOffsets(ctrl, b) = {}
    /\ \A d \in DOMAIN ftl.data_logblock_map :
         /\ Len(LbasOfLog(ftl, ftl.data_logblock_map[d])) <= block_size
         /\ WrittenOffsets(ctrl, ftl.data_logblock_map[d])
              = 0..(Len(LbasOfLog(ftl, ftl.data_logblock_map[d])) - 1)
         /\ \A l \in Range(LbasOfLog(ftl, ftl.data_logblock_map[d])) :
              BlockOf(l) = d /\ ftl.pages_valid[l]

\* C27: for every block b, erase_counts[b] plus the erases the Controller's
\* ledger has left for b is BLOCK_ERASES.
C27_EraseCountersMirror ==
  \A b \in DOMAIN ftl.erase_counts :
    ftl.erase_counts[b] + Remaining(ctrl, b) = block_erase_count

\* a state in which blocks were erased different numbers of times and one of
\* them has no erase left
C27_Witness ==
  /\ AtLeastOneBlockWornOut(ctrl)
  /\ \E a, b \in DOMAIN ftl.erase_counts :
       /\ ftl.erase_counts[a] = block_erase_count
       /\ ftl.erase_counts[b] \in 1..(block_erase_count - 1)

\* no pass can run in FTL state f: the policy tracks no block, or there is
\* no cleaning block
NothingCleanable(f) == Tracked(f.gc) = <<>> \/ f.cleanblock_idxs = <<>>

\* C28: with fewer than two over-provisioned blocks as with more, a rewrite
\* that finds its data block without log block, the free-log list empty and
\* nothing cleanable returns FAILURE without starting a pass; the policy is
\* never asked for a victim when it tracks none, and no pass starts when the
\* list of cleaning blocks is empty.
C28_FailureWithoutVictim ==
  [][last'.op = "Write"
       => /\ (/\ InRange(last'.lba) /\ data[last'.lba] # 0
              /\ ~HasKey(ftl.data_logblock_map, BlockOf(last'.lba))
              /\ ftl.free_log_blocks = <<>>
              /\ NothingCleanable(ftl))
               => (last'.result = "FAILURE" /\ last'.cleans = <<>>)
          /\ last'.cleans # <<>>
               => (ftl.cleanblock_idxs # <<>>
                   /\ (last'.cleans[1].assigned \/ Tracked(ftl.gc) # <<>>))]_vars

\* Write(lba) in the current state asks the policy for a victim: a rewrite
\* of a data block without log block while the free-log list is empty
AsksPolicy(lba) ==
  /\ InRange(lba) /\ data[lba] # 0
  /\ ~HasKey(ftl.data_logblock_map, BlockOf(lba))
  /\ ftl.free_log_blocks = <<>>

\* the first of sequence q that is in S, -1 if there is none
FirstIn(q, S) == IF Without(q, Range(q) \ S) = <<>> THEN -1
                 ELSE Head(Without(q, Range(q) \ S))

\* C29: the victim the round-robin policy returns holds a log block, and
\* among the data blocks holding a log block it is the one whose current log
\* block was allocated earliest.
C29_RoundRobinEarliestAllocated ==
  [][(conf.gc_policy = 0 /\ last'.op = "Write" /\ AsksPolicy(last'.lba)
      /\ last'.cleans # <<>>)
       => /\ HasKey(ftl.data_logblock_map, last'.cleans[1].blk)
          /\ last'.cleans[1].blk = FirstIn(ages.alloc, DOMAIN ftl.data_logblock_map)]_vars

\* C30: the victim the LRU policy returns holds a log block, and among the
\* data blocks holding a log block it is the one whose most recent write is
\* the oldest.
C30_LRUOldestWrite ==
  [][(conf.gc_policy = 1 /\ last'.op = "Write" /\ AsksPolicy(last'.lba)
      /\ last'.cleans # <<>>)
       => /\ HasKey(ftl.data_logblock_map, last'.cleans[1].blk)
          /\ last'.cleans[1].blk = FirstIn(ages.used, DOMAIN ftl.data_logblock_map)]_vars

\* the keys of live-page map m with the fewest live pages
Fewest(m) == {k \in DOMAIN m : \A j \in DOMAIN m : m[k] <= m[j]}

\* C31: the victim the greedy policy returns is a tracked block with the
\* fewest live pages, and the one with the lowest block index among the
\* blocks tied for the fewest.
C31_GreedyFewestLowestIndex ==
  [][(conf.gc_policy = 2 /\ last'.op = "Write" /\ AsksPolicy(last'.lba)
      /\ last'.cleans # <<>>)
       => /\ last'.cleans[1].blk \in Fewest(ftl.gc.block_livepages_map)
          /\ \A k \in Fewest(ftl.gc.block_livepages_map) : last'.cleans[1].blk <= k]_vars

\* ratio a is at least ratio b (fractions num/den with positive den)
RatioAtLeast(a, b) == a.num * b.den >= b.num * a.den

\* C32: when at least one block is tracked, the victim the cost-benefit
\* policy returns is a tracked block whose ratio (1 - u) / (1 + u) * age is
\* the largest, also when the largest ratio is 0.
C32_CostBenefitMaxRatio ==
  [][(conf.gc_policy = 3 /\ last'.op = "Write" /\ AsksPolicy(last'.lba)
      /\ last'.cleans # <<>> /\ DOMAIN ftl.gc.block_livepages_map # {})
       => /\ last'.cleans[1].blk \in DOMAIN ftl.gc.block_livepages_map
          /\ \A k \in DOMAIN ftl.gc.block_livepages_map :
               RatioAtLeast(CalcRatio(ftl.gc, last'.cleans[1].blk),
                            CalcRatio(ftl.gc, k))]_vars

\* the number of pages of data block b whose validity bit is set in f
ValidPages(f, b) ==
  Cardinality({i \in 0..(block_size - 1) : f.pages_valid[b * block_size + i]})

\* C33: after every host operation, the live-page counter the greedy or the
\* cost-benefit policy keeps for a tracked data block is the number of pages
\* of that block whose validity bit is set.
C33_LivePageCounters ==
  (Running /\ conf.gc_policy \in {2, 3})
    => \A b \in DOMAIN ftl.gc.block_livepages_map :
         ftl.gc.block_livepages_map[b] = ValidPages(ftl, b)

\* the first write of an LBA whose data block is tracked filled the block
C33_Witness ==
  /\ conf.gc_policy \in {2, 3} /\ last.op = "Write" /\ last.result = "SUCCESS"
  /\ last.addr = last.lba
  /\ HasKey(ftl.gc.block_livepages_map, BlockOf(last.lba))
  /\ ftl.gc.block_livepages_map[BlockOf(last.lba)] = block_size

\* C37: a Read(L) that returns SUCCESS delivers the payload of a page that
\* the Controller has stamped with L.
C37_ReadDeliversOwnStamp ==
  (last.op = "Read" /\ last.result = "SUCCESS")
    => /\ HasKey(ctrl.physical_logical_map, last.addr)
       /\ ctrl.physical_logical_map[last.addr] = last.lba

\* C34: a block accepts exactly BLOCK_ERASES ERASE commands: on a clean
\* buffer an ERASE of a block that accepted fewer succeeds, also the one that
\* leaves no erase, and an ERASE of a block that accepted BLOCK_ERASES raises
\* the FATAL error; AtLeastOneBlockWornOut is true exactly when some block
\* has accepted BLOCK_ERASES erases.
C34_EraseLedger ==
  [][/\ (last'.op = "ERASE" /\ ctrl.page_buffer = <<>>)
          => IF erased[last'.lba] < block_erase_count
             THEN /\ last'.exc = "none"
                  /\ erased'[last'.lba] = erased[last'.lba] + 1
             ELSE /\ last'.exc = "block_dead"
                  /\ erased'[last'.lba] = block_erase_count
     /\ AtLeastOneBlockWornOut(ctrl')
          <=> (\E b \in DOMAIN erased' : erased'[b] = block_erase_count)]_vars

\* an ERASE was refused after the block had accepted BLOCK_ERASES of them,
\* while another block has erases left
C34_Witness ==
  /\ last.op = "ERASE" /\ last.exc = "block_dead"
  /\ erased[last.lba] = block_erase_count /\ block_erase_count > 1
  /\ \E b \in DOMAIN erased : erased[b] \in 1..(block_erase_count - 1)
  /\ AtLeastOneBlockWornOut(ctrl)

\* the exceptions of the four checks of ExecuteCommand
Fatal == {"invalid_read", "dirty_write", "state_not_clean", "block_dead"}

\* C35: a READ, WRITE or ERASE that raises the FATAL error of one of these
\* checks leaves the physical-to-logical map, the written pages, the page
\* buffer, the erase ledger and the counters as they were.
C35_FatalLeavesState ==
  [][(last'.op \in {"READ", "WRITE", "ERASE"} /\ last'.exc \in Fatal)
       => ctrl' = ctrl]_vars

\* C36: a WRITE takes the oldest pair of the buffer, binds its target page to
\* the LBA of the pair and stores the payload of the pair there; a READ puts
\* the payload and the LBA of its page behind the pairs already buffered.
C36_FIFOStamping ==
  [][/\ (last'.op = "WRITE" /\ last'.exc = "none")
          => /\ ctrl'.page_buffer = Tail(ctrl.page_buffer)
             /\ ctrl'.physical_logical_map[last'.lba] = Head(ctrl.page_buffer).lba
             /\ ctrl'.slots[last'.lba] = Head(ctrl.page_buffer).page
     /\ (last'.op = "READ" /\ last'.exc = "none")
          => ctrl'.page_buffer
               = Append(ctrl.page_buffer,
                        [page |-> ctrl.slots[last'.lba],
                         lba |-> ctrl.physical_logical_map[last'.lba]])]_vars

\* two pages were read, the younger one with the other stamp and payload
\* was put behind, and a WRITE stored the older one
C36_Witness ==
  /\ last.op = "WRITE" /\ last.exc = "none"
  /\ Len(ctrl.page_buffer) = 1
  /\ ctrl.physical_logical_map[last.lba] # ctrl.page_buffer[1].lba
  /\ ctrl.slots[last.lba] # ctrl.page_buffer[1].page
  /\ last.trace[1].buf = 2

\* every component of address a is below the size of its level
InBounds(a) ==
  /\ a.package \in 0..(conf.ssd_size - 1) /\ a.die \in 0..(conf.package_size - 1)
  /\ a.plane \in 0..(conf.die_size - 1) /\ a.block \in 0..(conf.plane_size - 1)
  /\ a.page \in 0..(block_size - 1)

\* C38: the tuple of a page index p converts back to p, by GetPageIdx and by
\* the Controller's AddressToLBA; the tuple of a block index b converts back
\* to b; every component is within its bound; the page index of (block b,
\* offset i) is b * block_size + i.
C38_CodecRoundTrip ==
  /\ last.op = "CalcPhyAddr"
       => /\ GetPageIdx(last.val) = last.lba
          /\ AddressToLBA(last.val) = last.lba
          /\ InBounds(last.val)
  /\ last.op = "GetAddrFromBlockPageIdx"
       => /\ GetBlockIdx(GetAddrFromBlockIdx(last.lba)) = last.lba
          /\ GetBlockIdx(last.val) = last.lba
          /\ InBounds(last.val)
          /\ GetPageIdx(last.val) = last.lba * block_size + last.page
          /\ AddressToLBA(last.val) = last.lba * block_size + last.page

\* a page whose tuple has no zero component, in a geometry whose levels
\* differ in size
C38_Witness ==
  /\ last.op = "CalcPhyAddr"
  /\ last.val.package > 0 /\ last.val.die > 0 /\ last.val.plane > 0
  /\ last.val.block > 0 /\ last.val.page > 0
  /\ conf.package_size # conf.die_size /\ conf.plane_size # conf.die_size

\* the two maps of the page-mapped FTL f are inverse to each other, and
\* every mapped page is a page handed out from the log
PageMapConsistent(f) ==
  /\ \A l \in DOMAIN f.lba_page_map_ : \A p \in DOMAIN f.page_lba_map_ :
       (f.lba_page_map_[l] = p) <=> (f.page_lba_map_[p] = l)
  /\ \A l \in DOMAIN f.lba_page_map_ :
       f.lba_page_map_[l] # INVALID_PAGE => f.lba_page_map_[l] \in DOMAIN f.page_lba_map_
  /\ \A l1, l2 \in DOMAIN f.lba_page_map_ :
       (l1 # l2 /\ f.lba_page_map_[l1] # INVALID_PAGE)
         => f.lba_page_map_[l1] # f.lba_page_map_[l2]
  /\ \A l \in DOMAIN f.lba_page_map_ :
       f.lba_page_map_[l] # INVALID_PAGE
         => \/ /\ f.lba_page_map_[l] \div block_size = f.log_block_
               /\ f.lba_page_map_[l] % block_size < f.log_page_offset_
            \/ f.lba_page_map_[l] \div block_size \in Range(f.used_log_blocks_)

\* C39: after every ReadTranslate, WriteTranslate and Trim of the page-mapped
\* FTL, lba_page_map_[L] = P exactly when page_lba_map_[P] = L, no two LBAs
\* map to one page, every mapped page lies in the current log block below
\* log_page_offset_ or in a used log block; a WriteTranslate that returns
\* FAILURE changes neither map.
C39_PageMapInverse ==
  [][/\ PageMapConsistent(ftl')
     /\ (last'.op = "WriteTranslate" /\ last'.result = "FAILURE")
          => /\ ftl'.lba_page_map_ = ftl.lba_page_map_
             /\ ftl'.page_lba_map_ = ftl.page_lba_map_]_vars

\* a write of a valid LBA failed on the full log with no free block left,
\* after an LBA had been rewritten
C39_Witness ==
  /\ last.op = "WriteTranslate" /\ last.result = "FAILURE"
  /\ last.lba <= ftl.largest_lba_
  /\ ftl.free_log_blocks_ = <<>> /\ ftl.log_page_offset_ = block_size
  /\ \E p \in 0..(num_pages - 1) : ftl.page_lba_map_[p] = INVALID_PAGE
  /\ \E l \in DOMAIN ftl.lba_page_map_ : ftl.lba_page_map_[l] \in DOMAIN ftl.page_lba_map_

====
